---- MODULE Spec2Model ----
(***************************************************************************)
(* The transfer ledger of bank.py: a signed JSON file (bank.json) that is  *)
(* loaded, mutated and saved under one in-process lock by                  *)
(* create_transfer, claim_transfer and peek_transfer.  The threads of the  *)
(* model are the callers of these three functions; every action is one     *)
(* step of one call.                                                       *)
(***************************************************************************)
EXTENDS Integers, Sequences, FiniteSets, TLC

\* ------------------------------------------------------------- bounds
\* Total number of calls made by all threads together, out-of-band writes of
\* the file included.
MaxCalls == 3
\* Calls explored when the layout of processes is compared.
MaxProcCalls == 2

\* ------------------------------------------------------------- inputs
Threads == {"t1", "t2"}
Procs == {"p1", "p2"}
NoThread == "none"
Users == {"u1", "u2"}
Apps == {"casino", "fishing"}
\* The <<from_app, to_app>> pairs create_transfer is called with.
Routes == {<<"casino", "fishing">>, <<"fishing", "casino">>}
\* time.time() as sampled by the model.
Times == {1}

\* secrets.token_hex(3): lower-case hexadecimal strings; the model draws
\* from two of them.
HexTokens == {"a1", "b2"}

\* str.upper() on the strings of the model.
Upper(s) ==
  CASE s = "a1" -> "A1"
    [] s = "b2" -> "B2"
    [] OTHER -> s

\* The codes create_transfer can generate.
CodeSpace == {Upper(s) : s \in HexTokens}
\* The codes a caller may pass to claim_transfer / peek_transfer: the codes
\* create_transfer can generate and a lower-case spelling of one of them.
AllCodes == CodeSpace \cup {"a1"}

\* An amount argument: a Python value that is an int (isint) of value v, or
\* a value of another type (a float, a string).
AmountInputs ==
  {[isint |-> TRUE, v |-> n] : n \in {-1, 0, 1, 2}} \cup {[isint |-> FALSE, v |-> 1]}
NoAmount == [isint |-> FALSE, v |-> 0]

\* ------------------------------------------------------------- errors
\* The messages of the ValueErrors bank.py raises.
ErrAmount == "Amount must be positive integer"
ErrInvalid == "Invalid code"
ErrClaimed == "Code already claimed"
ErrDest == "Wrong destination"
ErrUser == "User mismatch"
ErrSignature == "Bank data signature mismatch"
\* json.load on a file that is not JSON (json.JSONDecodeError).
ErrJSON == "JSONDecodeError"

\* ------------------------------------------------------------- ledger
SECRET_KEY == "shared-bank-secret"

EmptyMap == [c \in {} |-> 0]

NoTransfer ==
  [code |-> "", from_app |-> "", to_app |-> "", user_id |-> "",
   amount |-> 0, timestamp |-> 0, claimed |-> FALSE]

\* _sign: HMAC-SHA256 of the canonical JSON of the transfer map under
\* SECRET_KEY, taken as collision free: the signature determines key and map.
SignKeysOnly(transfers) == [key |-> SECRET_KEY, data |-> DOMAIN transfers]
Sign(transfers) == [key |-> SECRET_KEY, data |-> transfers]

\* payload.get('signature', '') of a payload without signature.
NoSignature == [key |-> "", data |-> EmptyMap]

\* The file does not exist.
AbsentFile == [kind |-> "absent", transfers |-> EmptyMap, signature |-> NoSignature]
\* The file exists and is not JSON.
GarbageFile == [kind |-> "garbage", transfers |-> EmptyMap, signature |-> NoSignature]

\* _save: the payload written to BANK_FILE.
PayloadStale(transfers) ==
  [kind |-> "json", transfers |-> transfers, signature |-> Sign(EmptyMap)]
PayloadUnsigned(transfers) ==
  [kind |-> "json", transfers |-> transfers, signature |-> NoSignature]
Payload(transfers) ==
  [kind |-> "json", transfers |-> transfers, signature |-> Sign(transfers)]

\* _load, line 31: the signature check.
VerifiesAlways(f) == TRUE
Verifies(f) == Sign(f.transfers) = f.signature

\* dict.get(code): the record, or None (found = FALSE).
Get(transfers, code) ==
  IF code \in DOMAIN transfers
    THEN [found |-> TRUE, t |-> transfers[code]]
    ELSE [found |-> FALSE, t |-> NoTransfer]

\* create_transfer, line 43.
AcceptAnyAmount(a) == TRUE
ValidAmount(a) == a.isint /\ a.v > 0

\* create_transfer, line 49: the candidate code is not a key of the ledger.
AlwaysFresh(code, transfers) == TRUE
CodeFresh(code, transfers) == code \notin DOMAIN transfers

\* create_transfer, lines 51-59.
NewTransferClaimed(code, from_app, to_app, user_id, amount, ts) ==
  [code |-> code, from_app |-> from_app, to_app |-> to_app, user_id |-> user_id,
   amount |-> amount, timestamp |-> ts, claimed |-> TRUE]
NewTransfer(code, from_app, to_app, user_id, amount, ts) ==
  [code |-> code, from_app |-> from_app, to_app |-> to_app, user_id |-> user_id,
   amount |-> amount, timestamp |-> ts, claimed |-> FALSE]

\* claim_transfer, lines 64-72: the error raised, or "" when every check passes.
ClaimErrorDestFirst(g, expect_to_app, user_id) ==
  IF ~g.found THEN ErrInvalid
  ELSE IF g.t.to_app # expect_to_app THEN ErrDest
  ELSE IF g.t.claimed THEN ErrClaimed
  ELSE IF g.t.user_id # user_id THEN ErrUser
  ELSE ""
ClaimErrorNoClaimedCheck(g, expect_to_app, user_id) ==
  IF ~g.found THEN ErrInvalid
  ELSE IF g.t.to_app # expect_to_app THEN ErrDest
  ELSE IF g.t.user_id # user_id THEN ErrUser
  ELSE ""
ClaimErrorNoDestCheck(g, expect_to_app, user_id) ==
  IF ~g.found THEN ErrInvalid
  ELSE IF g.t.claimed THEN ErrClaimed
  ELSE IF g.t.user_id # user_id THEN ErrUser
  ELSE ""
ClaimErrorNoUserCheck(g, expect_to_app, user_id) ==
  IF ~g.found THEN ErrInvalid
  ELSE IF g.t.claimed THEN ErrClaimed
  ELSE IF g.t.to_app # expect_to_app THEN ErrDest
  ELSE ""
ClaimErrorUnknownAsClaimed(g, expect_to_app, user_id) ==
  IF ~g.found THEN ErrClaimed
  ELSE IF g.t.claimed THEN ErrClaimed
  ELSE IF g.t.to_app # expect_to_app THEN ErrDest
  ELSE IF g.t.user_id # user_id THEN ErrUser
  ELSE ""
ClaimError(g, expect_to_app, user_id) ==
  IF ~g.found THEN ErrInvalid
  ELSE IF g.t.claimed THEN ErrClaimed
  ELSE IF g.t.to_app # expect_to_app THEN ErrDest
  ELSE IF g.t.user_id # user_id THEN ErrUser
  ELSE ""

\* claim_transfer, line 73.
MarkAllClaimed(transfers, code) ==
  [k \in DOMAIN transfers |-> [transfers[k] EXCEPT !.claimed = TRUE]]
MarkNothing(transfers, code) == transfers
MarkRemoved(transfers, code) == [k \in DOMAIN transfers \ {code} |-> transfers[k]]
MarkClaimed(transfers, code) ==
  [transfers EXCEPT ![code] = [@ EXCEPT !.claimed = TRUE]]

\* ------------------------------------------------------------- state
VARIABLES
  file,       \* the content of BANK_FILE
  lock,       \* per process: the thread holding _lock, or NoThread
  proc,       \* the process each thread runs in
  th,         \* per thread: the frame of its current call
  calls,      \* number of calls (and out-of-band writes) made so far
  issued,     \* per code: how many create_transfer calls returned it
  paid,       \* per code: how many claim_transfer calls returned its amount
  createdAmt, \* per code: the amounts passed to the creates that returned it
  rejected,   \* <<code, error>> of the claim_transfer calls that raised
  saved,      \* the payload last written by _save (the file before any tampering)
  broken,     \* the file a load found a signature mismatch in, until the file
              \* is next written from outside
  cas         \* the casino program (casino.py), when one runs on CasinoThread

vars == <<file, lock, proc, th, calls, issued, paid, createdAmt, rejected, saved, broken, cas>>

NoRet == [kind |-> "pending", err |-> "", code |-> "", amount |-> 0, t |-> NoTransfer]
RetError(e) == [NoRet EXCEPT !.kind = "error", !.err = e]
RetCode(c) == [NoRet EXCEPT !.kind = "code", !.code = c]
RetAmount(n) == [NoRet EXCEPT !.kind = "amount", !.amount = n]
RetTransfer(g) ==
  IF g.found THEN [NoRet EXCEPT !.kind = "transfer", !.t = g.t]
  ELSE [NoRet EXCEPT !.kind = "None"]

\* No load has met a signature mismatch since the last outside write.
NotBroken == [on |-> FALSE, file |-> AbsentFile]

\* A thread that is in no call.  fresh: _load found no file and created it;
\* loaded: _load returned; pre: the ledger _load returned; data: the ledger
\* as the body changed it.
Idle ==
  [pc |-> "idle", op |-> "none", code |-> "", from_app |-> "", to_app |-> "",
   user_id |-> "", amount |-> NoAmount, fresh |-> FALSE, loaded |-> FALSE,
   pre |-> EmptyMap, data |-> EmptyMap, ret |-> NoRet]

\* ------------------------------------------------------------- casino
\* casino.py runs single-threaded; its calls of bank are made by CasinoThread.
CasinoThread == "t1"

\* The casino's state.  pc: "none" (no casino runs), "main" (started),
\* "claiming" (in bank.claim_transfer, line 169), "menu" (main menu prompt),
\* "bank" (bank menu prompt), "creating" (in bank.create_transfer, line 144),
\* "exited" (sys.exit or break), "crashed" (ended by an uncaught exception).
\* wallet: the local variable; disk: the wallet in SAVE_FILE; code, user:
\* the --autoclaim and --user arguments ("" when not given); printed: the
\* last message printed for a failure; raised: the uncaught exception;
\* spawned: the code handed to fishing.py; prev: the wallet before the last
\* debit; claimret: what claim_transfer returned or raised; credited: the
\* amount added to the wallet by the auto-claim.
NoCasino ==
  [pc |-> "none", wallet |-> 0, disk |-> 0, code |-> "", user |-> "",
   printed |-> "", raised |-> "", spawned |-> "", prev |-> 0,
   claimret |-> NoRet, credited |-> 0]

\* casino.py line 169: `amount, from_app = <value>` needs a value that
\* unpacks into two names; the int claim_transfer returns raises TypeError.
ErrUnpack == "cannot unpack non-iterable int object"
Unpacks2(ret) == ret.kind = "pair"

\* casino.py lines 168-175: the auto-claim's try / except Exception / else.
AfterClaim(ret) ==
  IF ret.kind = "error"
    THEN [cas EXCEPT !.pc = "menu", !.printed = ret.err, !.claimret = ret]
  ELSE IF ~Unpacks2(ret)
    THEN [cas EXCEPT !.pc = "menu", !.printed = ErrUnpack, !.claimret = ret]
  ELSE [cas EXCEPT !.pc = "menu", !.wallet = @ + ret.amount,
                   !.disk = cas.wallet + ret.amount,
                   !.credited = ret.amount, !.claimret = ret]

\* casino.py lines 144-146: create_transfer returns the code (fishing.py is
\* started with it, then sys.exit(0)), or its exception leaves bank_menu and
\* main uncaught.
AfterCreate(ret) ==
  IF ret.kind = "code"
    THEN [cas EXCEPT !.pc = "exited", !.spawned = ret.code]
    ELSE [cas EXCEPT !.pc = "crashed", !.raised = ret.err]

\* The casino when the call of thread t returns or raises.
CasinoReturn(t) ==
  IF t # CasinoThread THEN cas
  ELSE IF cas.pc = "claiming" THEN AfterClaim(th[t].ret)
  ELSE IF cas.pc = "creating" THEN AfterCreate(th[t].ret)
  ELSE cas

\* ------------------------------------------------------------- start
Init ==
  /\ file = AbsentFile
  /\ lock = [p \in Procs |-> NoThread]
  /\ proc = [t \in Threads |-> "p1"]
  /\ th = [t \in Threads |-> Idle]
  /\ calls = 0
  /\ issued = [c \in AllCodes |-> 0]
  /\ paid = [c \in AllCodes |-> 0]
  /\ createdAmt = [c \in AllCodes |-> {}]
  /\ rejected = {}
  /\ saved = AbsentFile
  /\ broken = NotBroken
  /\ cas = NoCasino

\* The number of calls (and out-of-band writes) explored.
CallBudget ==
  IF \A t \in Threads : proc[t] = "p1" THEN MaxCalls ELSE MaxProcCalls

\* ------------------------------------------------------------- calls
\* create_transfer, lines 42-44: the amount check, before any ledger access.
CallCreate(t) ==
  /\ th[t].pc = "idle"
  /\ calls < CallBudget
  /\ \E u \in Users, a \in AmountInputs, r \in Routes :
       th' = [th EXCEPT ![t] =
                IF ValidAmount(a)
                  THEN [Idle EXCEPT !.op = "create", !.user_id = u, !.amount = a,
                                    !.from_app = r[1], !.to_app = r[2], !.pc = "lock"]
                  ELSE [Idle EXCEPT !.op = "create", !.amount = a, !.pc = "raised",
                                    !.ret = RetError(ErrAmount)]]
  /\ calls' = calls + 1
  /\ UNCHANGED <<file, lock, proc, issued, paid, createdAmt, rejected, saved, broken, cas>>

\* claim_transfer, line 62.
CallClaim(t) ==
  /\ th[t].pc = "idle"
  /\ calls < CallBudget
  /\ \E c \in AllCodes, d \in Apps, u \in Users :
       th' = [th EXCEPT ![t] =
                [Idle EXCEPT !.op = "claim", !.code = c, !.to_app = d,
                             !.user_id = u, !.pc = "lock"]]
  /\ calls' = calls + 1
  /\ UNCHANGED <<file, lock, proc, issued, paid, createdAmt, rejected, saved, broken, cas>>

\* peek_transfer, line 76.
CallPeek(t) ==
  /\ th[t].pc = "idle"
  /\ calls < CallBudget
  /\ \E c \in AllCodes :
       th' = [th EXCEPT ![t] = [Idle EXCEPT !.op = "peek", !.code = c, !.pc = "lock"]]
  /\ calls' = calls + 1
  /\ UNCHANGED <<file, lock, proc, issued, paid, createdAmt, rejected, saved, broken, cas>>

\* ------------------------------------------------------------- the lock
\* `with _lock:` can be entered.
NoLock(t) == TRUE
CanAcquire(t) == lock[proc[t]] = NoThread

\* _access_bank line 37 / peek_transfer line 77: `with _lock:`.
Acquire(t) ==
  /\ th[t].pc = "lock"
  /\ CanAcquire(t)
  /\ lock' = [lock EXCEPT ![proc[t]] = t]
  /\ th' = [th EXCEPT ![t].pc = "load"]
  /\ UNCHANGED <<file, proc, calls, issued, paid, createdAmt, rejected, saved, broken, cas>>

\* _load, lines 25-26: the file does not exist, an empty ledger is saved.
LoadInit(t) ==
  /\ th[t].pc = "load"
  /\ file.kind = "absent"
  /\ file' = Payload(EmptyMap)
  /\ saved' = file'
  /\ th' = [th EXCEPT ![t].fresh = TRUE]
  /\ UNCHANGED <<lock, proc, calls, issued, paid, createdAmt, rejected, broken, cas>>

\* _load, lines 27-33: read, parse, verify; then the caller's next step.
Load(t) ==
  /\ th[t].pc = "load"
  /\ file.kind # "absent"
  /\ th' = [th EXCEPT ![t] =
       IF file.kind = "garbage" THEN [@ EXCEPT !.pc = "exit", !.ret = RetError(ErrJSON)]
       ELSE IF ~Verifies(file) THEN [@ EXCEPT !.pc = "exit", !.ret = RetError(ErrSignature)]
       ELSE [@ EXCEPT !.loaded = TRUE, !.pre = file.transfers, !.data = file.transfers,
                      !.pc = CASE th[t].op = "create" -> "gen"
                               [] th[t].op = "claim" -> "body"
                               [] OTHER -> "exit"]]
  /\ broken' = IF file.kind = "json" /\ ~Verifies(file)
                 THEN [on |-> TRUE, file |-> file] ELSE broken
  /\ UNCHANGED <<file, lock, proc, calls, issued, paid, createdAmt, rejected, saved, cas>>

\* ------------------------------------------------------------- bodies
\* create_transfer, lines 47-60: one iteration of the generation loop, and
\* the insert when the candidate is not a key of the ledger.
CreateGen(t) ==
  /\ th[t].pc = "gen"
  /\ \E tok \in HexTokens, ts \in Times :
       LET code == Upper(tok)
           r == th[t] IN
       th' = [th EXCEPT ![t] =
         IF CodeFresh(code, r.data)
           THEN [r EXCEPT !.code = code,
                          !.data = (code :> NewTransfer(code, r.from_app, r.to_app,
                                                          r.user_id, r.amount.v, ts)) @@ r.data,
                          !.ret = RetCode(code),
                          !.pc = "save"]
           ELSE [r EXCEPT !.code = code]]
  /\ UNCHANGED <<file, lock, proc, calls, issued, paid, createdAmt, rejected, saved, broken, cas>>

\* claim_transfer, lines 64-74.
ClaimBody(t) ==
  /\ th[t].pc = "body"
  /\ LET g == Get(th[t].data, th[t].code)
         e == ClaimError(g, th[t].to_app, th[t].user_id) IN
     th' = [th EXCEPT ![t] =
       IF e # ""
         THEN [@ EXCEPT !.pc = "exit", !.ret = RetError(e)]
         ELSE [@ EXCEPT !.data = MarkClaimed(th[t].data, th[t].code),
                        !.ret = RetAmount(g.t.amount),
                        !.pc = "save"]]
  /\ UNCHANGED <<file, lock, proc, calls, issued, paid, createdAmt, rejected, saved, broken, cas>>

\* _access_bank, line 40: _save(data) after the body completed.
Save(t) ==
  /\ th[t].pc = "save"
  /\ file' = Payload(th[t].data)
  /\ saved' = file'
  /\ th' = [th EXCEPT ![t].pc = "exit"]
  /\ UNCHANGED <<lock, proc, calls, issued, paid, createdAmt, rejected, broken, cas>>

\* Release that keeps the lock when the call raises.
ReleaseLeak(t) ==
  /\ th[t].pc = "exit"
  /\ lock' = IF th[t].ret.kind = "error" THEN lock
             ELSE [lock EXCEPT ![proc[t]] = NoThread]
  /\ th' = [th EXCEPT ![t] =
              IF th[t].op = "peek" /\ th[t].ret.kind = "pending"
                THEN [@ EXCEPT !.pc = "lookup"] ELSE Idle]
  /\ rejected' = IF th[t].op = "claim" /\ th[t].ret.kind = "error"
                   THEN rejected \cup {<<th[t].code, th[t].ret.err>>} ELSE rejected
  /\ issued' = IF th[t].ret.kind = "code"
                 THEN [issued EXCEPT ![th[t].ret.code] = @ + 1] ELSE issued
  /\ createdAmt' = IF th[t].ret.kind = "code"
                     THEN [createdAmt EXCEPT ![th[t].ret.code] = @ \cup {th[t].amount.v}]
                     ELSE createdAmt
  /\ paid' = IF th[t].ret.kind = "amount"
               THEN [paid EXCEPT ![th[t].code] = @ + 1] ELSE paid
  /\ UNCHANGED <<file, proc, calls, saved, broken>>
  /\ cas' = CasinoReturn(t)

\* Leaving `with _lock:` (normally or by an exception): the lock is released;
\* create_transfer / claim_transfer return th[t].ret or raise it, and the
\* thread is free for its next call.  peek_transfer goes on to its lookup.
Release(t) ==
  /\ th[t].pc = "exit"
  /\ lock' = [lock EXCEPT ![proc[t]] = NoThread]
  /\ th' = [th EXCEPT ![t] =
              IF th[t].op = "peek" /\ th[t].ret.kind = "pending"
                THEN [@ EXCEPT !.pc = "lookup"] ELSE Idle]
  /\ issued' = IF th[t].ret.kind = "code"
                 THEN [issued EXCEPT ![th[t].ret.code] = @ + 1] ELSE issued
  /\ createdAmt' = IF th[t].ret.kind = "code"
                     THEN [createdAmt EXCEPT ![th[t].ret.code] = @ \cup {th[t].amount.v}]
                     ELSE createdAmt
  /\ paid' = IF th[t].ret.kind = "amount"
               THEN [paid EXCEPT ![th[t].code] = @ + 1] ELSE paid
  /\ rejected' = IF th[t].op = "claim" /\ th[t].ret.kind = "error"
                   THEN rejected \cup {<<th[t].code, th[t].ret.err>>} ELSE rejected
  /\ UNCHANGED <<file, proc, calls, saved, broken>>
  /\ cas' = CasinoReturn(t)

\* peek_transfer, line 79, after the lock was released: the call returns
\* PeekValue(t).
PeekValue(t) == RetTransfer(Get(th[t].data, th[t].code))

PeekLookup(t) ==
  /\ th[t].pc = "lookup"
  /\ th' = [th EXCEPT ![t] = Idle]
  /\ UNCHANGED <<file, lock, proc, calls, issued, paid, createdAmt, rejected, saved, broken, cas>>

\* create_transfer, line 44: the ValueError reaches the caller.
Raised(t) ==
  /\ th[t].pc = "raised"
  /\ th' = [th EXCEPT ![t] = Idle]
  /\ UNCHANGED <<file, lock, proc, calls, issued, paid, createdAmt, rejected, saved, broken>>
  /\ cas' = CasinoReturn(t)

Next ==
  \E t \in Threads :
    \/ CallCreate(t)
    \/ CallClaim(t)
    \/ CallPeek(t)
    \/ Acquire(t)
    \/ LoadInit(t)
    \/ Load(t)
    \/ CreateGen(t)
    \/ ClaimBody(t)
    \/ Save(t)
    \/ Release(t)
    \/ PeekLookup(t)
    \/ Raised(t)

\* One process, no out-of-band change of the file.
Spec == Init /\ [][Next]_vars

\* ------------------------------------------------------------- environment
\* The record an outside edit adds to the transfer map.
PlantedTransfer(code) == NewTransfer(code, "casino", "fishing", "u1", 100, 1)

\* Something outside bank.py rewrites BANK_FILE without SECRET_KEY: with
\* bytes that are not JSON, with another signature, or with an edited
\* transfer map (an amount or a claimed flag changed, a transfer removed or
\* added) under the signature the file had.
Tamper ==
  /\ calls < CallBudget
  /\ calls' = calls + 1
  /\ \/ file' = GarbageFile
     \/ /\ file.kind = "json"
        /\ file' = [file EXCEPT !.signature = [key |-> "forged", data |-> file.transfers]]
     \/ /\ file.kind = "json"
        /\ \E c \in DOMAIN file.transfers :
             file' = [file EXCEPT !.transfers[c].amount = 100]
     \/ /\ file.kind = "json"
        /\ \E c \in DOMAIN file.transfers :
             file' = [file EXCEPT !.transfers[c].claimed = ~@]
     \/ /\ file.kind = "json"
        /\ \E c \in DOMAIN file.transfers :
             file' = [file EXCEPT !.transfers =
                        [k \in DOMAIN file.transfers \ {c} |-> file.transfers[k]]]
     \/ /\ file.kind = "json"
        /\ \E c \in CodeSpace \ DOMAIN file.transfers :
             file' = [file EXCEPT !.transfers = (c :> PlantedTransfer(c)) @@ @]
  /\ file' # file
  /\ broken' = NotBroken
  /\ UNCHANGED <<lock, proc, th, issued, paid, createdAmt, rejected, saved, cas>>

NextEnv == Next \/ Tamper

\* One process, with out-of-band changes of the file.
SpecEnv == Init /\ [][NextEnv]_vars

\* ------------------------------------------------------------- processes
\* The module-level _lock exists once per process: the two callers are either
\* threads of one process or two program instances on the same BANK_FILE.
ProcLayouts ==
  {[t \in Threads |-> "p2"],
   [t \in Threads |-> IF t = "t1" THEN "p1" ELSE "p2"]}

InitProcs ==
  /\ file = AbsentFile
  /\ lock = [p \in Procs |-> NoThread]
  /\ proc \in ProcLayouts
  /\ th = [t \in Threads |-> Idle]
  /\ calls = 0
  /\ issued = [c \in AllCodes |-> 0]
  /\ paid = [c \in AllCodes |-> 0]
  /\ createdAmt = [c \in AllCodes |-> {}]
  /\ rejected = {}
  /\ saved = AbsentFile
  /\ broken = NotBroken
  /\ cas = NoCasino

\* One or two processes, no out-of-band changes of the file.
SpecProcs == InitProcs /\ [][Next]_vars

\* The file at the start: none yet, or the ledger left by an earlier
\* create_transfer('u1', 100, 'casino', 'fishing') that returned A1.
StartFiles == {AbsentFile, Payload("A1" :> PlantedTransfer("A1"))}

\* One process or two, on a new or on an existing ledger.
InitLedger ==
  /\ file \in StartFiles
  /\ lock = [p \in Procs |-> NoThread]
  /\ proc \in ProcLayouts
  /\ th = [t \in Threads |-> Idle]
  /\ calls = 0
  /\ issued = [c \in AllCodes |-> IF file.kind = "json" /\ c = "A1" THEN 1 ELSE 0]
  /\ paid = [c \in AllCodes |-> 0]
  /\ createdAmt = [c \in AllCodes |-> IF file.kind = "json" /\ c = "A1" THEN {100} ELSE {}]
  /\ rejected = {}
  /\ saved = file
  /\ broken = NotBroken
  /\ cas = NoCasino

SpecLedger == InitLedger /\ [][Next]_vars

\* ------------------------------------------------------------- scheduling
\* A ledger in which every code of the code space is taken.
FullLedger ==
  Payload(("A1" :> PlantedTransfer("A1")) @@ ("B2" :> PlantedTransfer("B2")))

\* The threads of one process, on a new ledger or on a full one.
InitFair ==
  /\ file \in {AbsentFile, FullLedger}
  /\ lock = [p \in Procs |-> NoThread]
  /\ proc = [t \in Threads |-> "p2"]
  /\ th = [t \in Threads |-> Idle]
  /\ calls = 0
  /\ issued = [c \in AllCodes |-> IF file.kind = "json" /\ c \in CodeSpace THEN 1 ELSE 0]
  /\ paid = [c \in AllCodes |-> 0]
  /\ createdAmt = [c \in AllCodes |->
                     IF file.kind = "json" /\ c \in CodeSpace THEN {100} ELSE {}]
  /\ rejected = {}
  /\ saved = file
  /\ broken = NotBroken
  /\ cas = NoCasino

\* A step of thread t inside a call it has made, other than an iteration of
\* the generation loop.
Proceed(t) ==
  \/ Acquire(t)
  \/ LoadInit(t)
  \/ Load(t)
  \/ ClaimBody(t)
  \/ Save(t)
  \/ Release(t)
  \/ PeekLookup(t)
  \/ Raised(t)

\* secrets.token_hex draws a code that is not in the ledger.
FreshDraw(t) == CreateGen(t) /\ th'[t].pc = "save"

\* Every thread that can take a step is scheduled, and the random generator
\* does not avoid the unused codes forever.
SpecFair ==
  /\ InitFair
  /\ [][Next]_vars
  /\ \A t \in Threads : WF_vars(Proceed(t)) /\ WF_vars(FreshDraw(t))

\* ------------------------------------------------------------- casino program
\* The wallets found in SAVE_FILE and the command lines the casino is
\* started with: <<--autoclaim argument, --user argument>>, "" when absent.
Wallets == {1, 2}
CasinoArgs == {<<"", "">>, <<"a1", "u1">>}

\* casino.py line 139: the amount typed in the bank menu is accepted.
BankAmountAny(a, wallet) == a.isint
BankAmountOk(a, wallet) == a.isint /\ ~(a.v <= 0 \/ a.v > wallet)

\* Everything of the ledger model a casino step leaves alone.
CasinoFrame == UNCHANGED <<file, lock, proc, issued, paid, createdAmt, rejected, saved, broken>>

\* main, lines 154-169: the arguments are parsed (the code upper-cased), the
\* wallet is loaded, and with both arguments claim_transfer is called.
CasinoMain ==
  /\ cas.pc = "main"
  /\ IF cas.code # "" /\ cas.user # ""
       THEN /\ th[CasinoThread].pc = "idle"
            /\ calls < CallBudget
            /\ calls' = calls + 1
            /\ th' = [th EXCEPT ![CasinoThread] =
                        [Idle EXCEPT !.op = "claim", !.code = Upper(cas.code),
                                     !.to_app = "casino", !.user_id = cas.user,
                                     !.pc = "lock"]]
            /\ cas' = [cas EXCEPT !.pc = "claiming", !.wallet = cas.disk]
       ELSE /\ cas' = [cas EXCEPT !.pc = "menu", !.wallet = cas.disk]
            /\ UNCHANGED <<th, calls>>
  /\ CasinoFrame

\* main, lines 176-199: choice 4 opens the bank menu; choices 5 and 6 save
\* the wallet and end the program.
CasinoMenu ==
  /\ cas.pc = "menu"
  /\ \/ cas' = [cas EXCEPT !.pc = "bank"]
     \/ cas' = [cas EXCEPT !.pc = "exited", !.disk = cas.wallet]
  /\ UNCHANGED <<th, calls>>
  /\ CasinoFrame

\* bank_menu, lines 128-151: Q goes back; P reads an amount, rejects what is
\* not an int or not in 1..wallet, and otherwise debits the wallet, saves it
\* and calls create_transfer.
CasinoBank ==
  /\ cas.pc = "bank"
  /\ \/ /\ cas' = [cas EXCEPT !.pc = "menu"]
        /\ UNCHANGED <<th, calls>>
     \/ \E a \in AmountInputs :
          IF ~BankAmountOk(a, cas.wallet)
            THEN /\ cas' = [cas EXCEPT !.printed = "Invalid amount."]
                 /\ UNCHANGED <<th, calls>>
            ELSE /\ th[CasinoThread].pc = "idle"
                 /\ calls < CallBudget
                 /\ calls' = calls + 1
                 /\ cas' = [cas EXCEPT !.pc = "creating", !.prev = cas.wallet,
                                       !.wallet = cas.wallet - a.v,
                                       !.disk = cas.wallet - a.v]
                 /\ th' = [th EXCEPT ![CasinoThread] =
                      LET u == IF cas.user # "" THEN cas.user ELSE "player1" IN
                      IF ValidAmount(a)
                        THEN [Idle EXCEPT !.op = "create", !.user_id = u, !.amount = a,
                                          !.from_app = "casino", !.to_app = "fishing",
                                          !.pc = "lock"]
                        ELSE [Idle EXCEPT !.op = "create", !.amount = a, !.pc = "raised",
                                          !.ret = RetError(ErrAmount)]]
  /\ CasinoFrame

\* A casino has been started in the only process; the other thread stands
\* for the program at the other end of the ledger.
InitCasino ==
  /\ file = AbsentFile
  /\ lock = [p \in Procs |-> NoThread]
  /\ proc = [t \in Threads |-> "p1"]
  /\ th = [t \in Threads |-> Idle]
  /\ calls = 0
  /\ issued = [c \in AllCodes |-> 0]
  /\ paid = [c \in AllCodes |-> 0]
  /\ createdAmt = [c \in AllCodes |-> {}]
  /\ rejected = {}
  /\ saved = AbsentFile
  /\ broken = NotBroken
  /\ \E w \in Wallets, args \in CasinoArgs :
       cas = [NoCasino EXCEPT !.pc = "main", !.wallet = w, !.disk = w,
                              !.code = args[1], !.user = args[2]]

NextCasino ==
  \/ \E t \in Threads \ {CasinoThread} :
       \/ CallCreate(t)
       \/ CallClaim(t)
       \/ CallPeek(t)
  \/ \E t \in Threads :
       \/ Acquire(t)
       \/ LoadInit(t)
       \/ Load(t)
       \/ CreateGen(t)
       \/ ClaimBody(t)
       \/ Save(t)
       \/ Release(t)
       \/ PeekLookup(t)
       \/ Raised(t)
  \/ CasinoMain
  \/ CasinoMenu
  \/ CasinoBank
  \/ Tamper

\* The casino, another caller of the ledger, and out-of-band changes of the
\* file.
SpecCasino == InitCasino /\ [][NextCasino]_vars

\* ------------------------------------------------------------- properties
\* The ledger as verified by a load of the current file.
Persisted == IF file.kind = "json" /\ Verifies(file) THEN file.transfers ELSE EmptyMap
FileValid == file.kind = "json" /\ Verifies(file)

\* Thread t is in claim_transfer, has left the body and still holds the lock:
\* th[t].ret is what the call returns or raises.
ClaimOutcome(t) == th[t].op = "claim" /\ th[t].pc = "exit" /\ th[t].loaded
\* The transfer the claim of t found when it loaded the ledger.
Found(t) == Get(th[t].pre, th[t].code)

\* C1: for every code at most one claim_transfer call returns an amount, and
\* no claim is about to return an amount for a code that was already paid.
ExactlyOnceClaim ==
  /\ \A c \in AllCodes : paid[c] <= 1
  /\ \A t \in Threads :
       th[t].op = "claim" /\ th[t].ret.kind = "amount" => paid[th[t].code] = 0

\* C1 witness: a code was paid once and a second claim of it, with the
\* transfer's own to_app and user_id, is raising "Code already claimed".
ExactlyOnceClaimWitness ==
  \E t \in Threads :
    /\ ClaimOutcome(t)
    /\ paid[th[t].code] = 1
    /\ Found(t).found
    /\ Found(t).t.to_app = th[t].to_app
    /\ Found(t).t.user_id = th[t].user_id
    /\ th[t].ret = RetError(ErrClaimed)

\* Thread t is inside a scoped mutation, from its load to its save.
Critical(t) ==
  th[t].op \in {"create", "claim"} /\ th[t].pc \in {"load", "gen", "body", "save"}

\* C2: no two threads of one process are between the load and the save of a
\* scoped mutation at the same time.
MutualExclusion ==
  \A t1, t2 \in Threads :
    t1 # t2 /\ proc[t1] = proc[t2] => ~(Critical(t1) /\ Critical(t2))

\* C2 witness: one thread is about to save while another thread of the same
\* process waits for the lock with a create_transfer or claim_transfer call.
MutualExclusionWitness ==
  \E t1, t2 \in Threads :
    /\ t1 # t2 /\ proc[t1] = proc[t2]
    /\ Critical(t1) /\ th[t1].pc = "save"
    /\ th[t2].op \in {"create", "claim"} /\ th[t2].pc = "lock"

\* C3: a claim that finds its code unclaimed, with the transfer's to_app and
\* user_id, returns the amount passed to the create_transfer that returned the
\* code, and the file shows claimed = true before the call returns.
ClaimSucceeds ==
  \A t \in Threads :
    ( /\ ClaimOutcome(t)
      /\ Found(t).found
      /\ ~Found(t).t.claimed
      /\ Found(t).t.to_app = th[t].to_app
      /\ Found(t).t.user_id = th[t].user_id )
    => /\ th[t].ret.kind = "amount"
       /\ createdAmt[th[t].code] = {th[t].ret.amount}
       /\ FileValid
       /\ Get(file.transfers, th[t].code).found
       /\ Get(file.transfers, th[t].code).t.claimed

\* C3 witness: a claim is returning the amount 2 of an unclaimed transfer.
ClaimSucceedsWitness ==
  \E t \in Threads :
    /\ ClaimOutcome(t)
    /\ Found(t).found /\ ~Found(t).t.claimed
    /\ th[t].ret = RetAmount(2)
    /\ Get(Persisted, th[t].code).t.claimed

\* C4: once a claim of a code has returned its amount, a claim_transfer on
\* that code never reaches its save, raises "Code already claimed", and the
\* file is the ledger it loaded.
AlreadyClaimedAfterSuccess ==
  \A t \in Threads :
    th[t].op = "claim" /\ paid[th[t].code] >= 1
    => /\ th[t].pc # "save"
       /\ th[t].pc = "exit" => th[t].ret = RetError(ErrClaimed) /\ file = Payload(th[t].pre)

\* C4 witness: after a successful claim, a claim of the same code with a
\* different user is raising "Code already claimed".
AlreadyClaimedAfterSuccessWitness ==
  \E t \in Threads :
    /\ ClaimOutcome(t)
    /\ paid[th[t].code] = 1
    /\ Found(t).found
    /\ Found(t).t.user_id # th[t].user_id
    /\ th[t].ret = RetError(ErrClaimed)

\* C5: a claim that finds its code unclaimed with another to_app raises "Wrong
\* destination" and the file is the ledger it loaded; a code rejected this way
\* and not paid stays in the file unclaimed, and a later claim of it with the
\* transfer's to_app and user_id returns an amount.
DestinationMismatchRejected ==
  /\ \A t \in Threads :
       ( /\ ClaimOutcome(t)
         /\ Found(t).found
         /\ ~Found(t).t.claimed
         /\ Found(t).t.to_app # th[t].to_app )
       => /\ th[t].ret = RetError(ErrDest)
          /\ file = Payload(th[t].pre)
          /\ ~Get(file.transfers, th[t].code).t.claimed
  /\ \A c \in AllCodes :
       <<c, ErrDest>> \in rejected /\ paid[c] = 0
       => /\ Get(Persisted, c).found
          /\ \/ ~Get(Persisted, c).t.claimed
             \/ \E t \in Threads : th[t].op = "claim" /\ th[t].code = c /\ th[t].pc = "exit"
                                    /\ th[t].ret.kind = "amount"
  /\ \A t \in Threads :
       ( /\ ClaimOutcome(t)
         /\ <<th[t].code, ErrDest>> \in rejected
         /\ paid[th[t].code] = 0
         /\ Found(t).t.to_app = th[t].to_app
         /\ Found(t).t.user_id = th[t].user_id )
       => th[t].ret.kind = "amount"

\* C5 witness: a code was rejected with "Wrong destination" and a later claim
\* of it is returning its amount.
DestinationMismatchWitness ==
  \E t \in Threads :
    /\ ClaimOutcome(t)
    /\ <<th[t].code, ErrDest>> \in rejected
    /\ th[t].ret.kind = "amount"

\* C6: a claim that finds its code unclaimed with the transfer's to_app and
\* another user_id raises "User mismatch" and the file is the ledger it
\* loaded; a code rejected this way and not paid stays in the file unclaimed,
\* and a later claim of it by the transfer's user returns an amount.
UserMismatchRejected ==
  /\ \A t \in Threads :
       ( /\ ClaimOutcome(t)
         /\ Found(t).found
         /\ ~Found(t).t.claimed
         /\ Found(t).t.to_app = th[t].to_app
         /\ Found(t).t.user_id # th[t].user_id )
       => /\ th[t].ret = RetError(ErrUser)
          /\ file = Payload(th[t].pre)
          /\ ~Get(file.transfers, th[t].code).t.claimed
  /\ \A c \in AllCodes :
       <<c, ErrUser>> \in rejected /\ paid[c] = 0
       => /\ Get(Persisted, c).found
          /\ \/ ~Get(Persisted, c).t.claimed
             \/ \E t \in Threads : th[t].op = "claim" /\ th[t].code = c /\ th[t].pc = "exit"
                                    /\ th[t].ret.kind = "amount"
  /\ \A t \in Threads :
       ( /\ ClaimOutcome(t)
         /\ <<th[t].code, ErrUser>> \in rejected
         /\ paid[th[t].code] = 0
         /\ Found(t).t.to_app = th[t].to_app
         /\ Found(t).t.user_id = th[t].user_id )
       => th[t].ret.kind = "amount"

\* C6 witness: a code was rejected with "User mismatch" and a later claim of
\* it is returning its amount.
UserMismatchWitness ==
  \E t \in Threads :
    /\ ClaimOutcome(t)
    /\ <<th[t].code, ErrUser>> \in rejected
    /\ th[t].ret.kind = "amount"

\* C7: a claim whose code is not a key of the ledger it loaded raises "Invalid
\* code" and the file is the ledger it loaded.
UnknownCodeRejected ==
  \A t \in Threads :
    ClaimOutcome(t) /\ th[t].code \notin DOMAIN th[t].pre
    => th[t].ret = RetError(ErrInvalid) /\ file = Payload(th[t].pre)

\* C7 witness: a claim of a code that is not in a non-empty ledger is raising
\* "Invalid code".
UnknownCodeWitness ==
  \E t \in Threads :
    /\ ClaimOutcome(t)
    /\ th[t].pre # EmptyMap
    /\ th[t].code \notin DOMAIN th[t].pre
    /\ th[t].ret = RetError(ErrInvalid)

\* An amount that is zero, negative or not an integer.
BadAmount(a) == ~a.isint \/ a.v <= 0

\* C8: a create_transfer with an amount that is zero, negative or not an
\* integer is nowhere but at its raise of "Amount must be positive integer":
\* it never waits for or holds the lock and has loaded nothing.
InvalidAmountBeforeLedger ==
  \A t \in Threads :
    th[t].op = "create" /\ BadAmount(th[t].amount)
    => /\ th[t].pc = "raised"
       /\ th[t].ret = RetError(ErrAmount)
       /\ ~th[t].loaded
       /\ lock[proc[t]] # t

\* C8 witness: the raise happens while the file is corrupted.
InvalidAmountWitness ==
  \E t \in Threads :
    /\ th[t].pc = "raised"
    /\ BadAmount(th[t].amount)
    /\ file.kind # "absent"
    /\ ~FileValid

\* C9: a create_transfer that loaded the ledger returns a code that was not a
\* key of the loaded ledger, and the verified file maps the code to an
\* unclaimed transfer with the call's amount, from_app, to_app and user_id.
CreateThenPeek ==
  \A t \in Threads :
    th[t].op = "create" /\ th[t].pc = "exit" /\ th[t].loaded
    => /\ th[t].ret.kind = "code"
       /\ th[t].ret.code \notin DOMAIN th[t].pre
       /\ FileValid
       /\ Get(file.transfers, th[t].ret.code).found
       /\ LET r == Get(file.transfers, th[t].ret.code).t IN
            /\ ~r.claimed
            /\ r.amount = th[t].amount.v
            /\ r.from_app = th[t].from_app
            /\ r.to_app = th[t].to_app
            /\ r.user_id = th[t].user_id

\* C9 witness: a create_transfer of amount 2 on a non-empty ledger is
\* returning its code.
CreateThenPeekWitness ==
  \E t \in Threads :
    /\ th[t].op = "create" /\ th[t].pc = "exit"
    /\ th[t].pre # EmptyMap
    /\ th[t].amount.v = 2
    /\ th[t].ret.kind = "code"

\* C10: no code was returned by two create_transfer calls, and every key of
\* the ledger is the code of its record.
CodesUnique ==
  /\ \A c \in AllCodes : issued[c] <= 1
  /\ \A k \in DOMAIN Persisted : Persisted[k].code = k

\* C10 witness: a create_transfer is returning a code while the ledger holds
\* an earlier code that was returned once and claimed.
CodesUniqueWitness ==
  \E t \in Threads :
    /\ th[t].op = "create" /\ th[t].pc = "exit" /\ th[t].ret.kind = "code"
    /\ \E c \in DOMAIN th[t].pre :
         th[t].pre[c].claimed /\ issued[c] = 1 /\ paid[c] = 1

\* The file is JSON and is not what _save last wrote: its transfer map or its
\* signature was changed from outside.
Tampered == file.kind = "json" /\ file # saved

\* C11: a load of a file whose transfer map or signature was changed from
\* outside raises "Bank data signature mismatch", whatever the operation:
\* nothing is loaded, no transfer data reaches the caller, the file is left
\* as it is.
TamperDetected ==
  [][\A t \in Threads :
       th[t].pc = "load" /\ th'[t] # th[t] /\ Tampered
       => /\ th'[t].pc = "exit"
          /\ th'[t].ret = RetError(ErrSignature)
          /\ ~th'[t].loaded
          /\ th'[t].data = EmptyMap
          /\ file' = file]_vars

\* C11 witness: a claim_transfer is raising the mismatch on a file whose
\* transfer map was edited under the signature _save wrote.
TamperDetectedWitness ==
  \E t \in Threads :
    /\ th[t].op = "claim" /\ th[t].pc = "exit"
    /\ th[t].ret = RetError(ErrSignature)
    /\ file.kind = "json"
    /\ file.signature = saved.signature
    /\ file.transfers # saved.transfers

\* C12: after a load met a signature mismatch, and until the file is written
\* from outside, the file stays as that load found it, no call is in a body
\* or at its save, and every call that leaves the lock raises "Bank data
\* signature mismatch".
NeverRepaired ==
  broken.on
  => /\ file = broken.file
     /\ \A t \in Threads :
          /\ th[t].pc \notin {"gen", "body", "save"}
          /\ th[t].pc = "exit" => th[t].ret = RetError(ErrSignature)

\* C12 witness: a claim_transfer raised the mismatch, and a later
\* create_transfer or peek_transfer is raising it on the same file.
NeverRepairedWitness ==
  /\ broken.on
  /\ \E c \in AllCodes : <<c, ErrSignature>> \in rejected
  /\ \E t \in Threads :
       /\ th[t].op \in {"create", "peek"} /\ th[t].pc = "exit"
       /\ th[t].ret = RetError(ErrSignature)

\* C13: without outside writes the file is absent or is exactly what one
\* _save wrote, its signature is the signature of its transfer map, and no
\* load has raised.
SignatureInvariant ==
  /\ file = saved
  /\ file.kind \in {"absent", "json"}
  /\ file.kind = "json" => file.signature = Sign(file.transfers)
  /\ \A t \in Threads :
       /\ th[t].ret.err \notin {ErrSignature, ErrJSON}
       /\ th[t].loaded => th[t].pc # "load"

\* C13 witness: after a create_transfer and a claim_transfer, a
\* peek_transfer has loaded the ledger that holds the claimed transfer.
SignatureInvariantWitness ==
  \E t \in Threads :
    /\ th[t].op = "peek" /\ th[t].pc = "exit" /\ th[t].loaded
    /\ \E c \in DOMAIN th[t].pre : th[t].pre[c].claimed /\ paid[c] = 1

\* C14: no step removes a code from the persisted ledger, and the file, once
\* written, stays a ledger.
LedgerGrows ==
  [][file.kind = "json"
     => /\ file'.kind = "json"
        /\ \A c \in DOMAIN file.transfers : c \in DOMAIN file'.transfers]_vars

\* C14 witness: the ledger holds a claimed, paid transfer and a transfer
\* created besides it.
LedgerGrowsWitness ==
  /\ file.kind = "json"
  /\ Cardinality(DOMAIN file.transfers) = 2
  /\ \E c \in DOMAIN file.transfers : file.transfers[c].claimed /\ paid[c] = 1

\* C15: a transfer enters the persisted ledger only by the save of the
\* create_transfer that returns its code, and unclaimed; the only change of a
\* persisted transfer is claimed going from false to true, by the save of a
\* claim_transfer of its code that returns the amount; a claimed transfer
\* never changes.
TransferLifecycle ==
  [][\A c \in AllCodes :
       LET old == Get(file.transfers, c)
           new == Get(file'.transfers, c) IN
       /\ ~old.found /\ new.found
          => /\ ~new.t.claimed
             /\ \E t \in Threads :
                  /\ th[t].op = "create" /\ th[t].pc = "save" /\ th'[t].pc = "exit"
                  /\ th[t].ret = RetCode(c)
       /\ old.found
          => /\ new.found
             /\ \/ new.t = old.t
                \/ /\ ~old.t.claimed
                   /\ new.t = [old.t EXCEPT !.claimed = TRUE]
                   /\ \E t \in Threads :
                        /\ th[t].op = "claim" /\ th[t].pc = "save" /\ th'[t].pc = "exit"
                        /\ th[t].code = c
                        /\ th[t].ret.kind = "amount"]_vars

\* C15 witness: a claim_transfer has just saved claimed = true for a transfer
\* it loaded unclaimed, next to another transfer of the ledger.
TransferLifecycleWitness ==
  \E t \in Threads :
    /\ th[t].op = "claim" /\ th[t].pc = "exit" /\ th[t].ret.kind = "amount"
    /\ ~th[t].pre[th[t].code].claimed
    /\ file.transfers[th[t].code].claimed
    /\ Cardinality(DOMAIN file.transfers) = 2

\* The positions of a call inside `with _lock:`.
InsideLock == {"load", "gen", "body", "save", "exit"}

\* C16: the step in which a call raises writes nothing and leads to no save;
\* the next step of a raising scoped mutation (or peek) leaves the file as it
\* is and frees the lock; the lock is held only by a thread inside its with
\* block.
ReleaseOnError ==
  [][\A t \in Threads :
       /\ th'[t].ret.kind = "error" /\ th'[t] # th[t]
          => file' = file /\ th'[t].pc \in {"exit", "raised"}
       /\ th[t].pc = "exit" /\ th[t].ret.kind = "error" /\ th'[t] # th[t]
          => /\ file' = file
             /\ lock'[proc[t]] = NoThread
             /\ th'[t].pc = "idle"
       /\ lock'[proc[t]] = t => th'[t].pc \in InsideLock]_vars

\* C16 witness: after a claim_transfer raised from its body, another call
\* has acquired the lock.
ReleaseOnErrorWitness ==
  /\ \E c \in AllCodes, e \in {ErrInvalid, ErrClaimed, ErrDest, ErrUser} : <<c, e>> \in rejected
  /\ \E t \in Threads : th[t].pc = "load" /\ lock[proc[t]] = t

\* C17: while the ledger file is absent no call is past its load; the call
\* whose load found no file (fresh) has persisted an empty transfer set signed
\* over the empty set before reading it back, proceeds on the empty ledger
\* (a claim raises the invalid-code error, a peek returns None, a create
\* saves exactly its own transfer), and the file exists and verifies.
FirstLoadCreates ==
  /\ file.kind = "absent"
     => \A t \in Threads : ~th[t].loaded /\ th[t].pc \in {"idle", "lock", "load", "raised"}
  /\ \A t \in Threads :
       th[t].fresh =>
         /\ file.kind = "json"
         /\ file.signature = Sign(file.transfers)
         /\ th[t].pc = "load" => ~th[t].loaded /\ file.transfers = EmptyMap
         /\ th[t].pc # "load" => th[t].loaded /\ th[t].pre = EmptyMap
         /\ th[t].op = "claim" /\ th[t].pc = "exit"
            => th[t].ret = RetError(ErrInvalid) /\ file.transfers = EmptyMap
         /\ th[t].op = "peek" /\ th[t].pc \in {"exit", "lookup"}
            => /\ th[t].ret.kind = "pending"
               /\ PeekValue(t).kind = "None"
               /\ th[t].pc = "exit" => file.transfers = EmptyMap
         /\ th[t].op = "create" /\ th[t].pc = "exit"
            => th[t].ret.kind = "code" /\ DOMAIN file.transfers = {th[t].ret.code}

\* C17 witness: a claim_transfer that created the file has raised the
\* invalid-code error, and the file is the signed empty ledger.
FirstLoadCreatesWitness ==
  \E t \in Threads :
    /\ th[t].fresh /\ th[t].op = "claim" /\ th[t].pc = "exit"
    /\ th[t].ret = RetError(ErrInvalid)
    /\ file.kind = "json" /\ file.transfers = EmptyMap /\ Verifies(file)

\* A result that reached its caller and is missing from the persisted ledger:
\* a code returned by create_transfer that is not a key of the file, or an
\* amount paid by claim_transfer for a record the file holds unclaimed.
LostUpdate ==
  /\ file.kind = "json"
  /\ \E c \in AllCodes :
       \/ issued[c] >= 1 /\ c \notin DOMAIN file.transfers
       \/ /\ paid[c] >= 1
          /\ c \in DOMAIN file.transfers
          /\ ~file.transfers[c].claimed

\* C18: a lost update happens only between callers of different processes
\* (within one process the lock excludes it); the witness is the interleaving
\* the claim says exists.
LostUpdateOnlyAcrossProcesses ==
  LostUpdate => proc["t1"] # proc["t2"]

\* C18 witness: two processes, all calls returned, and the final file lacks
\* a transfer whose create_transfer returned its code, while it holds the one
\* created by the other process: the last save wrote back a state loaded
\* before the first was saved.
LostUpdateWitness ==
  /\ proc["t1"] # proc["t2"]
  /\ \A t \in Threads : th[t].pc = "idle"
  /\ file.kind = "json" /\ Verifies(file)
  /\ \E c \in AllCodes : issued[c] = 1 /\ c \notin DOMAIN file.transfers
  /\ \E d \in DOMAIN file.transfers : issued[d] = 1

\* C19, as the specification states it: a load that meets an unparseable
\* file ends the call with the error of a signature mismatch, writes nothing,
\* and the call then frees the lock.  The code raises json.JSONDecodeError
\* from json.load (line 28) instead, so this does not hold.
MalformedAsIntegrity ==
  [][\A t \in Threads :
       /\ th[t].pc = "load" /\ file.kind = "garbage" /\ th'[t] # th[t]
          => /\ th'[t].pc = "exit"
             /\ th'[t].ret = RetError(ErrSignature)
             /\ file' = file
       /\ th[t].pc = "exit" /\ th[t].ret.err \in {ErrSignature, ErrJSON} /\ th'[t] # th[t]
          => file' = file /\ lock'[proc[t]] = NoThread]_vars

\* C20: every step of a peek_transfer leaves the file as it is, except that
\* its load creates the empty signed ledger when there is no file; it never
\* reaches a save and its ledger is never a mutated one; its load of a file
\* whose signature does not verify ends the call with the signature error,
\* and a call that raised returns no value; otherwise it loads the persisted
\* map and returns the transfer stored under its code, or None.
PeekReadOnly ==
  [][\A t \in Threads :
       th[t].op = "peek" /\ th'[t] # th[t]
       => /\ \/ file' = file
             \/ /\ file.kind = "absent"
                /\ file'.kind = "json" /\ file'.transfers = EmptyMap
          /\ th'[t].pc \notin {"gen", "body", "save"}
          /\ th'[t].data = th'[t].pre
          /\ th[t].pc = "load" /\ file.kind = "json"
             => IF file.signature # Sign(file.transfers)
                  THEN /\ th'[t].pc = "exit"
                       /\ th'[t].ret = RetError(ErrSignature)
                       /\ ~th'[t].loaded
                  ELSE /\ th'[t].loaded
                       /\ th'[t].pre = file.transfers
                       /\ th'[t].ret.kind = "pending"
          /\ th[t].ret.kind = "error" => th'[t].pc = "idle"
          /\ th[t].pc = "lookup"
             => /\ th[t].loaded
                /\ PeekValue(t) = IF th[t].code \in DOMAIN th[t].pre
                                    THEN [NoRet EXCEPT !.kind = "transfer",
                                                       !.t = th[t].pre[th[t].code]]
                                    ELSE [NoRet EXCEPT !.kind = "None"]]_vars

\* C20 witness: a peek_transfer is about to return a stored, claimed transfer
\* and the file still holds the map it loaded.
PeekReadOnlyWitness ==
  \E t \in Threads :
    /\ th[t].op = "peek" /\ th[t].pc = "lookup"
    /\ PeekValue(t).kind = "transfer" /\ PeekValue(t).t.claimed
    /\ file.kind = "json" /\ file.transfers = th[t].pre

\* C21, as the specification states it: once the casino's auto-claim call
\* has returned the amount (the transfer is marked claimed by it), the wallet
\* has been credited with that amount and saved; when the call raised,
\* nothing was credited.  Line 169 unpacks the returned int into two names,
\* the TypeError is caught as a failed claim, so the credit never happens.
CreditOnSuccess ==
  /\ cas.claimret.kind = "amount"
     => cas.credited = cas.claimret.amount /\ cas.credited > 0
  /\ cas.claimret.kind = "error" => cas.credited = 0

\* C22: whenever the casino is in create_transfer, the amount is an int with
\* 0 < amount <= the wallet before the debit, the wallet in memory and in
\* SAVE_FILE is already that wallet minus the amount, the call goes from
\* 'casino' to 'fishing', and the transfer it inserts carries that amount
\* and route.
DebitFirst ==
  LET f == th[CasinoThread] IN
  f.op = "create"
  => /\ cas.pc = "creating"
     /\ f.amount.isint /\ 0 < f.amount.v /\ f.amount.v <= cas.prev
     /\ cas.wallet = cas.prev - f.amount.v
     /\ cas.disk = cas.wallet
     /\ f.from_app = "casino" /\ f.to_app = "fishing"
     /\ f.ret.kind = "code"
        => /\ f.ret.code \in DOMAIN f.data
           /\ f.data[f.ret.code].amount = f.amount.v
           /\ f.data[f.ret.code].from_app = "casino"
           /\ f.data[f.ret.code].to_app = "fishing"
           /\ ~f.data[f.ret.code].claimed

\* C22 witness: the casino's create_transfer of its whole wallet of 2 has
\* saved the transfer; the wallet on disk is 0.
DebitFirstWitness ==
  LET f == th[CasinoThread] IN
  /\ cas.pc = "creating" /\ f.op = "create" /\ f.pc = "exit"
  /\ f.ret.kind = "code" /\ f.amount.v = 2 /\ cas.prev = 2 /\ cas.disk = 0
  /\ file.kind = "json" /\ f.ret.code \in DOMAIN file.transfers
  /\ file.transfers[f.ret.code].amount = 2

\* C23, as the specification states it: a bank operation that fails inside
\* the casino is printed and the casino goes on to a prompt; it never ends
\* by the exception.  create_transfer in bank_menu has no try/except, so an
\* error of the load ends the program after the wallet was debited.
PrintAndRetry ==
  /\ cas.pc # "crashed"
  /\ cas.claimret.kind = "error"
     => cas.printed # "" /\ cas.pc \in {"menu", "bank", "creating", "exited"}

\* C24, as the specification states it: a claim_transfer or peek_transfer
\* called with any spelling of a code of the ledger has the outcome of the
\* call with the upper-case code.  bank.py looks the argument up as it is
\* (lines 65 and 79), so a lower-case spelling is an unknown code.
CaseInsensitive ==
  \A t \in Threads :
    th[t].loaded /\ Upper(th[t].code) \in DOMAIN th[t].pre
    => LET g == Get(th[t].pre, Upper(th[t].code))
           e == ClaimError(g, th[t].to_app, th[t].user_id) IN
       /\ th[t].op = "claim" /\ th[t].pc = "exit"
          => th[t].ret = IF e = "" THEN RetAmount(g.t.amount) ELSE RetError(e)
       /\ th[t].op = "peek" /\ th[t].pc = "lookup"
          => PeekValue(t) = RetTransfer(g)

\* The claim_transfer calls on code c that have returned its amount or are
\* about to (the body passed every check).
Payouts(c) ==
  paid[c] + Cardinality({t \in Threads :
                           /\ th[t].op = "claim" /\ th[t].code = c
                           /\ th[t].ret.kind = "amount"})

\* C25: the amount of one code is paid out twice only when the two claims
\* run in different processes; the witness is the interleaving the claim says
\* exists.
DoublePayOnlyAcrossProcesses ==
  (\E c \in AllCodes : Payouts(c) >= 2) => proc["t1"] # proc["t2"]

\* C25 witness: two processes have both loaded A1 unclaimed, and both
\* claim_transfer calls are returning its amount.
DoublePayWitness ==
  /\ proc["t1"] # proc["t2"]
  /\ \A t \in Threads :
       /\ th[t].op = "claim" /\ th[t].code = "A1" /\ th[t].pc = "exit"
       /\ th[t].ret = RetAmount(100)
       /\ Get(th[t].pre, "A1").found /\ ~Get(th[t].pre, "A1").t.claimed
  /\ file.kind = "json"
  /\ Get(file.transfers, "A1").found /\ Get(file.transfers, "A1").t.claimed

\* The fields of a transfer other than claimed.
FrameFields == {"code", "from_app", "to_app", "user_id", "amount", "timestamp"}

\* C26: the save of a create_transfer adds the returned code as the one new
\* key and leaves every entry the file had as it was; the save of a
\* claim_transfer keeps the keys, changes of the named transfer only claimed
\* (to true), and leaves every other transfer as it was.
MutationFrame ==
  [][\A t \in Threads :
       th[t].pc = "save" /\ th'[t].pc = "exit" /\ file.kind = "json"
       => LET old == file.transfers
              new == file'.transfers IN
          /\ file'.kind = "json"
          /\ th[t].op = "create"
             => /\ th'[t].ret.kind = "code"
                /\ th'[t].ret.code \notin DOMAIN old
                /\ DOMAIN new = DOMAIN old \cup {th'[t].ret.code}
                /\ \A k \in DOMAIN old : new[k] = old[k]
          /\ th[t].op = "claim"
             => /\ th'[t].ret.kind = "amount"
                /\ DOMAIN new = DOMAIN old
                /\ th[t].code \in DOMAIN old
                /\ \A k \in DOMAIN old \ {th[t].code} : new[k] = old[k]
                /\ \A f \in FrameFields : new[th[t].code][f] = old[th[t].code][f]
                /\ ~old[th[t].code].claimed /\ new[th[t].code].claimed]_vars

\* C26 witness: a claim_transfer has saved a ledger of two transfers in
\* which the other transfer is unclaimed as before.
MutationFrameWitness ==
  \E t \in Threads :
    /\ th[t].op = "claim" /\ th[t].pc = "exit" /\ th[t].ret.kind = "amount"
    /\ file.kind = "json" /\ DOMAIN file.transfers = CodeSpace
    /\ \E k \in CodeSpace \ {th[t].code} :
         file.transfers[k] = th[t].pre[k] /\ ~file.transfers[k].claimed

\* C27: a claim_transfer that raises reports the first failing check in the
\* order unknown code, already claimed, wrong destination, wrong user: the
\* later conditions do not matter once an earlier one fails.
CheckOrder ==
  \A t \in Threads :
    ClaimOutcome(t)
    => LET g == Found(t)
           wrongDest == g.t.to_app # th[t].to_app
           wrongUser == g.t.user_id # th[t].user_id IN
       /\ ~g.found => th[t].ret = RetError(ErrInvalid)
       /\ g.found /\ g.t.claimed => th[t].ret = RetError(ErrClaimed)
       /\ g.found /\ ~g.t.claimed /\ wrongDest => th[t].ret = RetError(ErrDest)
       /\ g.found /\ ~g.t.claimed /\ ~wrongDest /\ wrongUser
          => th[t].ret = RetError(ErrUser)

\* C27 witness: a claim on a claimed code with a wrong destination and a
\* wrong user raises the already-claimed error.
CheckOrderWitness ==
  \E t \in Threads :
    /\ ClaimOutcome(t)
    /\ Found(t).found /\ Found(t).t.claimed
    /\ Found(t).t.to_app # th[t].to_app
    /\ Found(t).t.user_id # th[t].user_id
    /\ th[t].ret = RetError(ErrClaimed)

\* Thread t is in the generation loop of create_transfer and every code of
\* the code space is a key of its ledger.
Exhausted(t) == th[t].pc = "gen" /\ CodeSpace \subseteq DOMAIN th[t].data

\* C28: a create_transfer in its generation loop with an unused code left
\* eventually returns a code; one whose ledger holds every code stays in the
\* loop holding the lock, and every call of its process waiting for the lock
\* keeps waiting.
CreateTermination ==
  /\ \A t \in Threads :
       (th[t].pc = "gen" /\ ~Exhausted(t))
         ~> (th[t].op = "create" /\ th[t].pc = "exit" /\ th[t].ret.kind = "code")
  /\ [][\A t \in Threads :
          Exhausted(t)
          => /\ Exhausted(t)'
             /\ lock'[proc[t]] = t
             /\ file' = file
             /\ \A u \in Threads :
                  th[u].pc = "lock" /\ proc[u] = proc[t] => th'[u].pc = "lock"]_vars

\* C28 witness: a create_transfer on a full ledger has drawn a taken code and
\* is still in its loop, holding the lock another call is waiting for.
CreateTerminationWitness ==
  \E t \in Threads, u \in Threads :
    /\ Exhausted(t) /\ th[t].code \in DOMAIN th[t].data
    /\ lock[proc[t]] = t
    /\ th[u].pc = "lock" /\ proc[u] = proc[t]

\* Some create_transfer is caught in its generation loop for good.
SomeExhausted == \E u \in Threads : Exhausted(u)

\* C29: unless a create_transfer has run out of codes, every call waiting
\* for the lock acquires it and every call returns or raises; a thread never
\* waits for a lock it holds, and a thread in no call holds no lock.
DeadlockFree ==
  /\ \A t \in Threads :
       (th[t].pc = "lock") ~> (lock[proc[t]] = t \/ SomeExhausted)
  /\ \A t \in Threads :
       (th[t].pc # "idle") ~> (th[t].pc = "idle" \/ SomeExhausted)
  /\ [](\A t \in Threads :
          /\ th[t].pc = "lock" => lock[proc[t]] # t
          /\ th[t].pc \in {"idle", "lookup", "raised"} => lock[proc[t]] # t)

\* C29 witness: a call waits for the lock while a peek_transfer of the same
\* process, which has loaded the ledger, still holds it.
DeadlockFreeWitness ==
  \E t \in Threads, u \in Threads :
    /\ th[t].pc = "lock" /\ lock[proc[t]] = u /\ u # t
    /\ th[u].op = "peek" /\ th[u].pc = "exit"
    /\ ~SomeExhausted

\* C30: a peek_transfer that is loading or has loaded holds the lock of its
\* process, no other thread of the process is between its load and its
\* save, and the ledger the peek loaded is the file as the last whole
\* operation saved it.
PeekUnderLock ==
  \A t \in Threads :
    th[t].op = "peek" /\ th[t].pc \in {"load", "exit"}
    => /\ lock[proc[t]] = t
       /\ \A u \in Threads \ {t} :
            proc[u] = proc[t] => th[u].pc \in {"idle", "lock", "lookup", "raised"}
       /\ th[t].loaded
          => /\ file.kind = "json"
             /\ th[t].pre = file.transfers
             /\ file = saved

\* C30 witness: a peek_transfer has loaded a ledger holding a transfer while
\* a create_transfer or claim_transfer of the same process waits for the lock.
PeekUnderLockWitness ==
  \E t \in Threads, u \in Threads :
    /\ u # t
    /\ th[t].op = "peek" /\ th[t].pc = "exit" /\ th[t].loaded
    /\ th[t].code \in DOMAIN th[t].pre
    /\ proc[u] = proc[t]
    /\ th[u].op \in {"create", "claim"} /\ th[u].pc = "lock"

====
